---- MODULE Spec2Model ----
(***************************************************************************)
(* Model of the metric upsert and aggregation code of relay-api.           *)
(*                                                                         *)
(* The state is the committed content of the database tables (store), the  *)
(* SQLAlchemy sessions of the requests in flight (ses), and a logical      *)
(* clock (now) that stamps requests and numbers generated identifiers.     *)
(*                                                                         *)
(* An optional value (Python None / SQL NULL) is a set with at most one    *)
(* element: None is {} and a present value v is {v}.                       *)
(*                                                                         *)
(* Every metric table carries the same shape of row: id, user_id, one      *)
(* timestamp column (date_hour, date, date_day, measurement_date or        *)
(* datetime), a source (meal_name for nutrition macros), nullable data      *)
(* columns and updated_at.  The data columns of a kind are all merged by    *)
(* the same "if x is not None: setattr" chain, so two of them, f1 and f2,  *)
(* stand for the chain.                                                    *)
(***************************************************************************)
EXTENDS Integers, Sequences, FiniteSets, TLC

VARIABLES store, ses, now

vars == <<store, ses, now>>

\* ------------------------------------------------------------------ bounds
MaxBatch == 2
MaxRequests == 2

\* The requests of a behaviour in which a stored record is worked on twice
\* (create, delete, create again; create and two merges)
MaxLongRequests == 3

\* ------------------------------------------------------------------ values
None == {}
Some(v) == {v}

Sessions == {1, 2}
DataSource == {"Manual", "Fitbit"}
Opt(S) == {None} \cup {Some(v) : v \in S}

\* ------------------------------------------------------------------ rows
Row(id, tbl, u, d, s, f1, f2, upd) ==
    [id |-> id, tbl |-> tbl, user_id |-> u, date |-> d, source |-> s,
     f1 |-> f1, f2 |-> f2, updated_at |-> upd]

Table(t) == {x \in store : x.tbl = t}

\* Identifiers held by a session: loaded, added or returned objects
Held(s) == {o.id : o \in s.objs} \cup {s.news[i].id : i \in 1..Len(s.news)}
              \cup {s.processed[i] : i \in 1..Len(s.processed)}

\* generate_rid: a random identifier that collides with none in use, modelled
\* as the least identifier that no row and no session holds.
generate_rid ==
    LET used == {x.id : x \in store} \cup UNION {Held(ses[q]) : q \in Sessions}
    IN  CHOOSE n \in 1..(Cardinality(used) + 1) :
            n \notin used /\ \A m \in 1..(n - 1) : m \in used

\* ------------------------------------------------------------------ sessions
IdleSession ==
    [st |-> "idle", h |-> "none", user |-> "none", stamp |-> 0, pc |-> "loop",
     batch |-> <<>>, objs |-> {}, orig |-> {}, news |-> <<>>, dels |-> {},
     processed |-> <<>>, made |-> {}, created |-> 0, updated |-> 0,
     err |-> "none",
     resp |-> <<>>, replay |-> FALSE, plan |-> <<>>, first |-> <<>>]

Init ==
    /\ store = {}
    /\ ses = [r \in Sessions |-> IdleSession]
    /\ now = 0

\* get_db: a request arrives, FastAPI opens a session for it and calls handler h
\* for the authenticated user u; at most 'limit' requests arrive.
get_db_within(r, h, u, limit) ==
    /\ ses[r].st = "idle"
    /\ now < limit
    /\ now' = now + 1
    /\ ses' = [ses EXCEPT ![r] = [IdleSession EXCEPT !.st = "run", !.h = h,
                                     !.user = u, !.stamp = now + 1]]
    /\ UNCHANGED store

get_db(r, h, u) == get_db_within(r, h, u, MaxRequests)

\* finally: db.close(): the response has been sent, the session is discarded.
db_close(r) ==
    /\ ses[r].st \in {"ok", "err"}
    /\ ses' = [ses EXCEPT ![r] = IdleSession]
    /\ UNCHANGED <<store, now>>

\* ------------------------------------------------------------------ ORM session
\* The identity map: the object a query returns for committed row x is the one
\* already loaded in this session, if any (its attributes are not refreshed).
Obj(s, x) ==
    IF \E o \in s.objs : o.id = x.id
    THEN CHOOSE o \in s.objs : o.id = x.id
    ELSE x

Load(s, x) ==
    IF \E o \in s.objs : o.id = x.id
    THEN s
    ELSE [s EXCEPT !.objs = @ \cup {x}, !.orig = @ \cup {x}]

\* setattr on a loaded object
SetObj(s, o) == [s EXCEPT !.objs = {p \in @ : p.id # o.id} \cup {o}]

\* except Exception: db.rollback(); raise HTTPException(500).  An exception
\* that leaves a service uncaught ends the request the same way: get_db closes
\* the session and what was not committed is lost.
Raise(s, e) ==
    [s EXCEPT !.st = "err", !.err = e, !.objs = {}, !.orig = {},
              !.news = <<>>, !.dels = {}]

\* UniqueConstraint(...) in each model's __table_args__
UniqueConstraint(t) ==
    CASE t = "activity_miles" -> {"user_id", "date", "source"}
      [] t = "activity_steps" -> {"user_id", "date", "source"}
      [] t = "activity_workouts" -> {"user_id", "date", "source"}
      [] t = "sleep_daily" -> {"user_id", "date", "source"}
      [] t = "body_composition" -> {"user_id", "date"}
      [] t = "goal_general" -> {"user_id"}
      [] OTHER -> {}

\* The models whose source column is nullable=False
NotNullSource(t) == t \in {"activity_miles", "activity_steps", "sleep_daily"}

\* Two rows that the table's unique constraint does not allow together.  A NULL
\* in a constrained column never equals another NULL (PostgreSQL).
Conflict(x, y) ==
    /\ x.id # y.id
    /\ x.tbl = y.tbl
    /\ UniqueConstraint(x.tbl) # {}
    /\ \A col \in UniqueConstraint(x.tbl) :
          /\ x[col] = y[col]
          /\ col = "source" => x.source # None

\* An UPDATE that writes every column of the object
ApplyUpdateAll(x, o, x0, stamp) ==
    [x EXCEPT !.date = o.date, !.source = o.source, !.f1 = o.f1, !.f2 = o.f2,
              !.updated_at = IF o.updated_at # x0.updated_at THEN o.updated_at
                             ELSE Some(stamp)]

\* The UPDATE the unit of work emits for object o, loaded as x0, on committed
\* row x: only the columns whose value changed since the load are written;
\* updated_at has onupdate=func.now().
ApplyUpdate(x, o, x0, stamp) ==
    [x EXCEPT !.date = IF o.date # x0.date THEN o.date ELSE @,
              !.source = IF o.source # x0.source THEN o.source ELSE @,
              !.f1 = IF o.f1 # x0.f1 THEN o.f1 ELSE @,
              !.f2 = IF o.f2 # x0.f2 THEN o.f2 ELSE @,
              !.updated_at = IF o.updated_at # x0.updated_at THEN o.updated_at
                             ELSE Some(stamp)]

Dirty(s) == {o \in s.objs : o \notin s.orig /\ o.id \notin s.dels}

SeqRange(q) == {q[i] : i \in 1..Len(q)}

\* What db.commit() would leave in the database: deletes, updates and inserts
\* of the flush applied to the committed rows.
Flushed(s) ==
    LET gone == {x \in store : x.id \in s.dels}
        upd == {x \in store : \E o \in Dirty(s) : o.id = x.id}
        new == {ApplyUpdate(x, Obj(s, x), CHOOSE x0 \in s.orig : x0.id = x.id, s.stamp)
                   : x \in upd}
    IN  ((store \ gone) \ upd) \cup new \cup SeqRange(s.news)

\* The flush fails when an UPDATE finds its row gone (StaleDataError) or a
\* unique constraint rejects the result (IntegrityError).
FlushError(s) ==
    IF \E o \in Dirty(s) : ~ \E x \in store : x.id = o.id
    THEN "StaleDataError"
    ELSE IF \/ \E x, y \in Flushed(s) : Conflict(x, y)
            \/ \E x \in Flushed(s) : NotNullSource(x.tbl) /\ x.source = None
    THEN "IntegrityError"
    ELSE "none"

\* The records of a response: the processed objects, expired by the commit,
\* are read again from the committed rows when the response is serialised.
Serialised(s, rows) ==
    [i \in 1..Len(s.processed) |-> CHOOSE x \in rows : x.id = s.processed[i]]

\* ------------------------------------------------------------------ bulk upsert
\* A candidate of a bulk request: its timestamp, its source and its data fields.
Candidate(d, s, f1, f2) == [date |-> d, source |-> s, f1 |-> f1, f2 |-> f2]

Candidates(D, S, V1, V2) ==
    {Candidate(d, s, f1, f2) : d \in D, s \in S, f1 \in Opt(V1), f2 \in Opt(V2)}

\* A merge that assigns every data field, present or not
OverwriteMerge(o, c, stamp) ==
    [o EXCEPT !.f1 = c.f1, !.f2 = c.f2, !.updated_at = Some(stamp)]

\* A merge that also assigns a key column of the record
RekeyMerge(o, c, stamp) ==
    [o EXCEPT !.f1 = IF c.f1 # None THEN c.f1 ELSE @,
              !.f2 = IF c.f2 # None THEN c.f2 ELSE @,
              !.source = None,
              !.updated_at = Some(stamp)]

\* if data.x is not None: setattr(existing_record, "x", data.x), for each data
\* field, then setattr(existing_record, "updated_at", datetime.utcnow())
SparseMerge(o, c, stamp) ==
    [o EXCEPT !.f1 = IF c.f1 # None THEN c.f1 ELSE @,
              !.f2 = IF c.f2 # None THEN c.f2 ELSE @,
              !.updated_at = Some(stamp)]

\* A merge branch without processed_records.append(existing_record)
UpdatedNotAppended(s, x, o2) ==
    [SetObj(Load(s, x), o2) EXCEPT !.updated = @ + 1]

\* the branch "if existing_record": o2 is the merged object of committed row x
Updated(s, x, o2) ==
    [SetObj(Load(s, x), o2) EXCEPT !.processed = Append(@, x.id),
                                   !.updated = @ + 1]

\* the branch "else": db.add(new_record)
Created(s, n) ==
    [s EXCEPT !.news = Append(@, n), !.processed = Append(@, n.id),
              !.made = @ \cup {n.id}, !.created = @ + 1]

NewRow(s, tbl, c) ==
    Row(generate_rid, tbl, s.user, c.date, c.source, c.f1, c.f2, None)

\* One iteration of a bulk loop whose lookup is .one_or_none() and found the
\* committed rows 'existing'.
OneOrNoneUpsert(s, tbl, c, existing) ==
    IF Cardinality(existing) > 1
    THEN Raise(s, "MultipleResultsFound")
    ELSE IF existing # {}
    THEN LET x == CHOOSE x \in existing : TRUE
         IN  Updated(s, x, SparseMerge(Obj(s, x), c, s.stamp))
    ELSE Created(s, NewRow(s, tbl, c))

\* The next candidate of the request body.  A request that is sent again
\* (replay) carries the candidates of the first sending, in the same order.
Takes(s, c) ==
    /\ Len(s.batch) < MaxBatch
    /\ s.replay => /\ Len(s.batch) < Len(s.plan)
                   /\ c = s.plan[Len(s.batch) + 1]

BatchDone(s) == s.replay => Len(s.batch) = Len(s.plan)

\* One iteration of the loop of handler h over the request body, leaving the
\* session as s2.
Iterate(r, h, c, s2) ==
    /\ ses[r].st = "run"
    /\ ses[r].h = h
    /\ ses[r].pc = "loop"
    /\ Takes(ses[r], c)
    /\ ses' = [ses EXCEPT ![r] = s2]
    /\ UNCHANGED <<store, now>>

Taken(r, c) == [ses[r] EXCEPT !.batch = Append(@, c)]

\* A lookup whose filter leaves out the source column
ByUserDate(tbl, u, c) ==
    {x \in Table(tbl) : x.user_id = u /\ x.date = c.date}

\* A lookup whose filter leaves out the owner
ByDateSource(tbl, u, c) ==
    {x \in Table(tbl) : x.date = c.date /\ x.source = c.source}

\* The rows of table tbl with the natural key (user_id, timestamp, source)
ByUserDateSource(tbl, u, c) ==
    {x \in Table(tbl) : x.user_id = u /\ x.date = c.date /\ x.source = c.source}

\* POST /miles/bulk: one iteration of "for miles_data in bulk_data.records"
create_or_update_multiple_activity_miles_records(r, c) ==
    Iterate(r, "miles_bulk", c,
            OneOrNoneUpsert(Taken(r, c), "activity_miles", c,
                            ByUserDateSource("activity_miles", ses[r].user, c)))

\* POST /workouts/bulk: one iteration of "for workout_data in bulk_data.records"
create_or_update_multiple_workout_records(r, c) ==
    Iterate(r, "workouts_bulk", c,
            OneOrNoneUpsert(Taken(r, c), "activity_workouts", c,
                            ByUserDateSource("activity_workouts", ses[r].user, c)))

\* POST /sleep/bulk: one iteration of "for sleep_data in bulk_data.records"
create_or_update_multiple_sleep_records(r, c) ==
    Iterate(r, "sleep_bulk", c,
            OneOrNoneUpsert(Taken(r, c), "sleep_daily", c,
                            ByUserDateSource("sleep_daily", ses[r].user, c)))

\* POST /macros/bulk: the key is (user_id, datetime, meal_name); meal_name
\* takes the place of the source.
create_or_update_multiple_macro_records(r, c) ==
    Iterate(r, "macros_bulk", c,
            OneOrNoneUpsert(Taken(r, c), "nutrition_macros", c,
                            ByUserDateSource("nutrition_macros", ses[r].user, c)))

\* The rows of table tbl of one user: the lookup of the one-record-per-user kinds
ByUser(tbl, u) == {x \in Table(tbl) : x.user_id = u}

\* POST /composition/bulk: "one record per user for body composition"
create_or_update_multiple_body_composition_records(r, c) ==
    Iterate(r, "composition_bulk", c,
            OneOrNoneUpsert(Taken(r, c), "body_composition", c,
                            ByUser("body_composition", ses[r].user)))

\* The general goal has no updated_at assignment in its merge chain.
GoalMerge(o, c) ==
    [o EXCEPT !.f1 = IF c.f1 # None THEN c.f1 ELSE @,
              !.f2 = IF c.f2 # None THEN c.f2 ELSE @]

\* POST /goal/general/bulk: one iteration of "for goal_data in bulk_data.records"
create_or_update_multiple_general_goals(r, c) ==
    LET s == Taken(r, c)
        existing_goal == ByUser("goal_general", s.user)
    IN  Iterate(r, "goal_bulk", c,
                IF Cardinality(existing_goal) > 1
                THEN Raise(s, "MultipleResultsFound")
                ELSE IF existing_goal # {}
                THEN LET x == CHOOSE x \in existing_goal : TRUE
                     IN  Updated(s, x, GoalMerge(Obj(s, x), c))
                ELSE Created(s, NewRow(s, "goal_general", c)))

\* A date string of a data point is written as the hour it denotes; Malformed
\* is a string that datetime.fromisoformat rejects.
Malformed == -1

\* datetime.fromisoformat(date_str): the datetime, or None for ValueError
fromisoformat(date_str) == IF date_str = Malformed THEN None ELSE Some(date_str)

\* POST /steps/: one iteration of "for data_point in metric.data".  A date
\* string that does not parse and an empty source are passed over with
\* "continue".  The lookup that follows filters on ActivitySteps.date, and the
\* model ActivitySteps has the column date_hour and no attribute date: the
\* expression raises AttributeError, which "except Exception" turns into the
\* rollback and the 500 response.
ingest_steps_data(r, data_point) ==
    LET s == Taken(r, data_point)
        steps_datetime == fromisoformat(data_point.date)
    IN  Iterate(r, "steps_ingest", data_point,
                IF steps_datetime = None THEN s
                ELSE IF data_point.source = Some("") THEN s
                ELSE Raise(s, "AttributeError"))

\* POST /steps/record: the lookup for an existing record filters on
\* ActivitySteps.date and steps_data.date; the model has the column date_hour
\* and the schema ActivityStepsCreate the field date_hour, so the expression
\* raises AttributeError before any query, and "except Exception" answers 500.
create_hourly_steps_record(r, steps_data) ==
    /\ ses[r].st = "run"
    /\ ses[r].h = "steps_record"
    /\ ses' = [ses EXCEPT ![r] =
                  Raise([@ EXCEPT !.batch = <<steps_data>>], "AttributeError")]
    /\ UNCHANGED <<store, now>>

\* POST /heartrate/record: the lookup reads heart_rate_data.date, and the
\* schema HeartRateCreate has the field date_hour: AttributeError, answered 500.
create_heart_rate_record(r, heart_rate_data) ==
    /\ ses[r].st = "run"
    /\ ses[r].h = "heartrate_record"
    /\ ses' = [ses EXCEPT ![r] =
                  Raise([@ EXCEPT !.batch = <<heart_rate_data>>], "AttributeError")]
    /\ UNCHANGED <<store, now>>

\* MetricsService.create_or_update_multiple_miles_records: one iteration, up
\* to the repository call; the lookup get_miles_data_by_date_hour_source is
\* .first()
MetricsService_create_or_update_multiple_miles_records(r, c) ==
    LET s == [Taken(r, c) EXCEPT !.pc = "flush"]
        existing_record == ByUserDateSource("activity_miles", s.user, c)
    IN  \/ /\ existing_record = {}
           /\ Iterate(r, "miles_service", c, Created(s, NewRow(s, "activity_miles", c)))
        \/ \E x \in existing_record :
              Iterate(r, "miles_service", c,
                      Updated(s, x, SparseMerge(Obj(s, x), c, s.stamp)))

\* The handlers that commit once, after the loop ("Commit all changes at once")
ApiHandlers ==
    {"miles_bulk", "workouts_bulk", "sleep_bulk", "macros_bulk",
     "composition_bulk", "goal_bulk", "steps_ingest"}

Committed(s, rows) ==
    [s EXCEPT !.objs = {}, !.orig = {}, !.news = <<>>, !.dels = {},
              !.resp = Serialised(s, rows)]

\* db.commit() after the loop and the response built from processed_records
db_commit(r) ==
    LET s == ses[r]
    IN  /\ s.st = "run"
        /\ s.h \in ApiHandlers
        /\ BatchDone(s)
        /\ IF FlushError(s) # "none"
           THEN /\ ses' = [ses EXCEPT ![r] = Raise(s, FlushError(s))]
                /\ UNCHANGED store
           ELSE /\ store' = Flushed(s)
                /\ ses' = [ses EXCEPT ![r] =
                              [Committed(s, Flushed(s)) EXCEPT !.st = "ok"]]
        /\ UNCHANGED now

\* MetricsRepository.create_new_miles_record / update_miles_record:
\* db.commit(); db.refresh(record).  The commit expires the loaded objects.
\* The service catches nothing: an error ends the request.
MetricsRepository_commit(r) ==
    LET s == ses[r]
    IN  /\ s.st = "run"
        /\ s.pc = "flush"
        /\ IF FlushError(s) # "none"
           THEN /\ ses' = [ses EXCEPT ![r] = Raise(s, FlushError(s))]
                /\ UNCHANGED store
           ELSE /\ store' = Flushed(s)
                /\ ses' = [ses EXCEPT ![r] =
                              [Committed(s, Flushed(s)) EXCEPT !.pc = "loop"]]
        /\ UNCHANGED now

\* return processed_records, created_count, updated_count
MetricsService_return(r) ==
    LET s == ses[r]
    IN  /\ s.st = "run"
        /\ s.h = "miles_service"
        /\ s.pc = "loop"
        /\ BatchDone(s)
        /\ ses' = [ses EXCEPT ![r] =
                      IF \A i \in 1..Len(s.processed) :
                             \E x \in store : x.id = s.processed[i]
                      THEN [Committed(s, store) EXCEPT !.st = "ok"]
                      ELSE Raise(s, "ObjectDeletedError")]
        /\ UNCHANGED <<store, now>>

\* The client sends the request it has just been answered once more.
resend(r) ==
    /\ ses[r].st = "ok"
    /\ ~ ses[r].replay
    /\ now < MaxRequests
    /\ now' = now + 1
    /\ ses' = [ses EXCEPT ![r] =
                  [IdleSession EXCEPT !.st = "run", !.h = ses[r].h,
                                      !.user = ses[r].user, !.stamp = now + 1,
                                      !.replay = TRUE, !.plan = ses[r].batch,
                                      !.first = [resp |-> ses[r].resp,
                                                 created |-> ses[r].created,
                                                 updated |-> ses[r].updated,
                                                 rows |-> store]]]
    /\ UNCHANGED store

\* ------------------------------------------------------------------ by id
\* A lookup by id that leaves out the owner
ById(tbl, u, id) == {x \in Table(tbl) : x.id = id}

\* filter(Model.id == record_id, Model.user_id == current_user.id).first()
ByIdAndUser(tbl, u, id) == {x \in Table(tbl) : x.id = id /\ x.user_id = u}

\* raise HTTPException(status_code=...), passed on by "except HTTPException:
\* raise"
HTTPException(s, code) == [s EXCEPT !.st = "err", !.err = code]

\* GET /miles/{record_id}
get_activity_mile_record(r, record_id) ==
    LET s == [ses[r] EXCEPT !.batch = <<record_id>>]
        record == ByIdAndUser("activity_miles", s.user, record_id)
    IN  /\ ses[r].st = "run"
        /\ ses[r].h = "miles_get"
        /\ ses' = [ses EXCEPT ![r] =
                      IF record = {}
                      THEN HTTPException(s, "HTTP_404")
                      ELSE [s EXCEPT !.st = "ok",
                                     !.resp = <<CHOOSE x \in record : TRUE>>]]
        /\ UNCHANGED <<store, now>>

\* A delete that removes every record the caller has in the table
DeleteOfUser(r, h, tbl, record_id) ==
    LET s == [ses[r] EXCEPT !.batch = <<record_id>>]
        record == ByIdAndUser(tbl, s.user, record_id)
    IN  /\ ses[r].st = "run"
        /\ ses[r].h = h
        /\ IF record = {}
           THEN /\ ses' = [ses EXCEPT ![r] = HTTPException(s, "HTTP_404")]
                /\ UNCHANGED store
           ELSE /\ store' = store \ ByUser(tbl, s.user)
                /\ ses' = [ses EXCEPT ![r] = [s EXCEPT !.st = "ok"]]
        /\ UNCHANGED now

\* A DELETE /{record_id} handler h on table tbl: the lookup, then
\* db.delete(record) and db.commit()
DeleteById(r, h, tbl, record_id) ==
    LET s == [ses[r] EXCEPT !.batch = <<record_id>>]
        record == ByIdAndUser(tbl, s.user, record_id)
    IN  /\ ses[r].st = "run"
        /\ ses[r].h = h
        /\ IF record = {}
           THEN /\ ses' = [ses EXCEPT ![r] = HTTPException(s, "HTTP_404")]
                /\ UNCHANGED store
           ELSE /\ store' = store \ record
                /\ ses' = [ses EXCEPT ![r] = [s EXCEPT !.st = "ok"]]
        /\ UNCHANGED now

\* DELETE /miles/{record_id}
delete_activity_miles_record(r, record_id) ==
    DeleteById(r, "miles_delete", "activity_miles", record_id)

\* DELETE /macros/{record_id}
delete_macro_record(r, record_id) ==
    DeleteById(r, "macros_delete", "nutrition_macros", record_id)

\* DELETE /sleep/daily/{record_id}
delete_sleep_daily_record(r, record_id) ==
    DeleteById(r, "sleep_delete", "sleep_daily", record_id)

\* MetricsRepository.delete_miles_record, as MetricsService.delete_miles_record
\* returns it: the deleted record, or None
MetricsRepository_delete_miles_record(r, record_id) ==
    LET s == [ses[r] EXCEPT !.batch = <<record_id>>, !.st = "ok"]
        record == ByIdAndUser("activity_miles", s.user, record_id)
    IN  /\ ses[r].st = "run"
        /\ ses[r].h = "miles_repo_delete"
        /\ IF record = {}
           THEN /\ ses' = [ses EXCEPT ![r] = [s EXCEPT !.resp = <<None>>]]
                /\ UNCHANGED store
           ELSE /\ store' = store \ record
                /\ ses' = [ses EXCEPT ![r] = [s EXCEPT !.resp = <<record>>]]
        /\ UNCHANGED now

\* NutritionRepository.delete_macro_record, as NutritionService.delete_macro_record
\* returns it: "return None" on both paths
NutritionRepository_delete_macro_record(r, record_id) ==
    LET s == [ses[r] EXCEPT !.batch = <<record_id>>, !.st = "ok",
                            !.resp = <<None>>]
        record == ByIdAndUser("nutrition_macros", s.user, record_id)
    IN  /\ ses[r].st = "run"
        /\ ses[r].h = "macros_repo_delete"
        /\ store' = store \ record
        /\ ses' = [ses EXCEPT ![r] = s]
        /\ UNCHANGED now

\* ------------------------------------------------------------------ aggregation
\* Timestamps count hours; a calendar day has HoursPerDay of them.
HoursPerDay == 24

Value(o) == CHOOSE v \in o : TRUE

\* total = 0.0; for record in records: if record.x is not None: total += float(record.x)
RECURSIVE SumOf(_, _)
SumOf(rows, f) ==
    IF rows = {} THEN 0
    ELSE LET x == CHOOSE x \in rows : TRUE
         IN  (IF x[f] # None THEN Value(x[f]) ELSE 0) + SumOf(rows \ {x}, f)

\* total if total > 0 else None
PositiveOrNone(total) == IF total > 0 THEN Some(total) ELSE None

\* datetime.combine(target_date, datetime.min.time()) and
\* datetime.combine(target_date, datetime.max.time())
DayStart(day) == day * HoursPerDay
DayEnd(day) == day * HoursPerDay + (HoursPerDay - 1)

\* the query of the macro records of one user within [start, end]
get_macros_data(u, start, end) ==
    {x \in Table("nutrition_macros") :
        x.user_id = u /\ x.date >= start /\ x.date <= end}

Answer(r, resp) ==
    /\ ses' = [ses EXCEPT ![r] = [@ EXCEPT !.st = "ok", !.resp = resp]]
    /\ UNCHANGED <<store, now>>

\* GET /macros/daily/{date}
get_daily_macro_records(r, day) ==
    LET records == get_macros_data(ses[r].user, DayStart(day), DayEnd(day))
    IN  /\ ses[r].st = "run"
        /\ ses[r].h = "macros_daily"
        /\ Answer(r, <<[date |-> day,
                         total_f1 |-> PositiveOrNone(SumOf(records, "f1")),
                         total_f2 |-> PositiveOrNone(SumOf(records, "f2")),
                         meal_count |-> Cardinality(records),
                         meals |-> records]>>)

\* NutritionService.get_daily_macros_data with _calculate_totals: calories
\* (f1) is summed without a None test and reported as it is, "can be 0.0";
\* the other totals are "total if total > 0 else None".
NutritionService_get_daily_macros_data(r, day) ==
    LET records == get_macros_data(ses[r].user, DayStart(day), DayEnd(day))
    IN  /\ ses[r].st = "run"
        /\ ses[r].h = "macros_daily_service"
        /\ IF \E x \in records : x.f1 = None
           THEN /\ ses' = [ses EXCEPT ![r] = Raise(@, "TypeError")]
                /\ UNCHANGED <<store, now>>
           ELSE Answer(r, <<[date |-> day,
                             total_f1 |-> Some(SumOf(records, "f1")),
                             total_f2 |-> PositiveOrNone(SumOf(records, "f2")),
                             meal_count |-> Cardinality(records),
                             meals |-> records]>>)

\* The calendar day of a stored timestamp on a clock five hours behind UTC
DateKeyLocal(x) == (x.date - 5) \div HoursPerDay

\* date_key = record.datetime.date(): the calendar day of a stored timestamp
\* (stored timestamps are read on the UTC clock)
DateKey(x) == x.date \div HoursPerDay

\* aggregations.sort(key=lambda x: x["date"]) over the keys of daily_groups
RECURSIVE SortedDates(_)
SortedDates(S) ==
    IF S = {} THEN <<>>
    ELSE LET m == CHOOSE m \in S : \A k \in S : m <= k
         IN  <<m>> \o SortedDates(S \ {m})

\* One entry of aggregations: the totals are sums over the truthy values,
\* reported as "total if total > 0 else None"
Bucket(day, day_records) ==
    [date |-> day,
     total_f1 |-> PositiveOrNone(SumOf(day_records, "f1")),
     total_f2 |-> PositiveOrNone(SumOf(day_records, "f2")),
     meal_count |-> Cardinality(day_records),
     meals |-> day_records]

\* The records of user u that pass the optional start_date / end_date filters
InDateRange(tbl, u, start_date, end_date) ==
    {x \in Table(tbl) :
        /\ x.user_id = u
        /\ start_date # None => x.date >= DayStart(Value(start_date))
        /\ end_date # None => x.date <= DayEnd(Value(end_date))}

\* GET /macros/aggregate, called with start_date and end_date
get_macro_aggregations(r, start_date, end_date) ==
    LET records == InDateRange("nutrition_macros", ses[r].user, start_date, end_date)
        daily_groups == [k \in {DateKey(x) : x \in records} |->
                            {x \in records : DateKey(x) = k}]
        days == SortedDates(DOMAIN daily_groups)
    IN  /\ ses[r].st = "run"
        /\ ses[r].h = "macros_aggregate"
        /\ ses' = [ses EXCEPT ![r] =
                      [@ EXCEPT !.st = "ok",
                                !.batch = <<[start_date |-> start_date,
                                             end_date |-> end_date]>>,
                                !.resp = [i \in 1..Len(days) |->
                                             Bucket(days[i], daily_groups[days[i]])]]]
        /\ UNCHANGED <<store, now>>

\* The orders in which a query may return the rows S
Orderings(S) ==
    {q \in [1..Cardinality(S) -> S] : \A i, j \in DOMAIN q : i # j => q[i] # q[j]}

\* order_by(<timestamp>.asc())
OrderByAsc(S) ==
    {q \in Orderings(S) : \A i \in 1..(Len(q) - 1) : q[i].date <= q[i + 1].date}

\* order_by(<timestamp>.desc()): rows of equal timestamp come in any order
OrderByDesc(S) ==
    {q \in Orderings(S) : \A i \in 1..(Len(q) - 1) : q[i].date >= q[i + 1].date}

\* order_by(ChatMessage.created_at.asc()): the oldest message first
OrderByCreatedAt(S) ==
    {q \in Orderings(S) : \A i \in 1..(Len(q) - 1) : q[i].date <= q[i + 1].date}

\* MetricsRepository.get_miles_data without date filters
MetricsRepository_get_miles_data(r) ==
    /\ ses[r].st = "run"
    /\ ses[r].h = "miles_list"
    /\ \E records \in OrderByDesc(ByUser("activity_miles", ses[r].user)) :
          Answer(r, records)

\* ------------------------------------------------------------------ chat
\* A row of "conversations": its owner and, as date, its created_at
ChatConversation(id, u, stamp) ==
    Row(id, "conversations", u, stamp, None, None, None, None)

\* A row of "chat_messages": its owner, as date its created_at, and as f1 its
\* conversation_id
ChatMessage(id, u, stamp, conversation_id) ==
    Row(id, "chat_messages", u, stamp, None, Some(conversation_id), None, None)

\* filter(ChatMessage.conversation_id == conversation_id)
MessagesOf(conversation_id) ==
    {x \in Table("chat_messages") : x.f1 = Some(conversation_id)}

\* ChatService.get_or_create_conversation(user_id): the most recent
\* conversation of the user (every conversation is "active"), or a new one,
\* committed by ConversationRepository.create
ChatService_get_or_create_conversation(r) ==
    LET s == ses[r]
        existing == ByUser("conversations", s.user)
        latest == CHOOSE x \in existing : \A y \in existing : y.date <= x.date
        new == ChatConversation(generate_rid, s.user, s.stamp)
        conversation == IF existing # {} THEN latest ELSE new
    IN  /\ s.st = "run"
        /\ s.h = "chat_add"
        /\ s.pc = "loop"
        /\ store' = store \cup {conversation}
        /\ ses' = [ses EXCEPT ![r] = [s EXCEPT !.pc = "message",
                                                !.batch = <<conversation.id>>]]
        /\ UNCHANGED now

\* ChatService.add_message(conversation_id, content, role, user_id), committed
\* by MessageRepository.create
ChatService_add_message(r) ==
    LET s == ses[r]
        message == ChatMessage(generate_rid, s.user, s.stamp, s.batch[1])
    IN  /\ s.st = "run"
        /\ s.h = "chat_add"
        /\ s.pc = "message"
        /\ store' = store \cup {message}
        /\ ses' = [ses EXCEPT ![r] = [s EXCEPT !.st = "ok", !.resp = <<message>>]]
        /\ UNCHANGED now

\* GET /conversations/{conversation_id}/messages:
\* ChatService.get_conversation_messages(conversation_id)
get_messages(r, conversation_id) ==
    /\ ses[r].st = "run"
    /\ ses[r].h = "chat_messages"
    /\ \E messages \in OrderByCreatedAt(MessagesOf(conversation_id)) :
          Answer(r, messages)

\* GET /conversations: ChatService.get_all_conversations(current_user.id)
get_conversations(r) ==
    /\ ses[r].st = "run"
    /\ ses[r].h = "chat_conversations"
    /\ \E conversations \in OrderByDesc(ByUser("conversations", ses[r].user)) :
          Answer(r, conversations)

\* ------------------------------------------------------------------ day boundaries
\* The UTC offsets of the inputs, in hours
Offsets == -14..14

\* An input string: a date, and optionally a time of day and a UTC offset
\* ("Z" is the offset 0).
DatetimeStr(d, tm, off) == [date |-> d, time |-> tm, offset |-> off]

DatetimeStrs(D) ==
    {DatetimeStr(d, None, None) : d \in D}
        \cup {DatetimeStr(d, Some(h), off) :
                 d \in D, h \in 0..(HoursPerDay - 1), off \in Opt(Offsets)}

\* datetime.fromisoformat(datetime_str.replace("Z", "+00:00")): a datetime
\* with the fields as written; a bare date parses to midnight, and without an
\* offset tzinfo is None.
parse_iso_datetime(str) ==
    [date |-> str.date,
     hour |-> IF str.time = None THEN 0 ELSE Value(str.time),
     tzinfo |-> str.offset]

\* A naive datetime read in the zone of the server, five hours behind UTC
ServerTz(parsed) == IF parsed.tzinfo = None THEN -5 ELSE Value(parsed.tzinfo)

\* user_tz = parsed.tzinfo or timezone.utc
UserTz(parsed) == IF parsed.tzinfo = None THEN 0 ELSE Value(parsed.tzinfo)

\* The UTC calendar date of the parsed instant
DateInUtc(parsed) ==
    (parsed.date * HoursPerDay + parsed.hour - UserTz(parsed)) \div HoursPerDay

\* date_in_user_tz = parsed.date()
DateInUserTz(parsed) == parsed.date

\* datetime.max.time(), the last instant of a day
MaxTime == HoursPerDay - 1

\* A conversion that applies the offset with the wrong sign
CombineWrongSign(date, hour, tz) == date * HoursPerDay + hour + tz

\* datetime.combine(date, time, tzinfo=tz).astimezone(timezone.utc), as hours
\* since the epoch
CombineUtc(date, hour, tz) == date * HoursPerDay + hour - tz

\* get_day_boundaries_from_datetime
get_day_boundaries_from_datetime(str) ==
    LET parsed == parse_iso_datetime(str)
        user_tz == UserTz(parsed)
        date_in_user_tz == DateInUserTz(parsed)
    IN  [start |-> CombineUtc(date_in_user_tz, 0, user_tz),
         end |-> CombineUtc(date_in_user_tz, MaxTime, user_tz)]

\* A caller holding the string str
DayRequest(str) ==
    [IdleSession EXCEPT !.st = "run", !.h = "day_boundaries", !.user = "u1",
                        !.batch = <<str>>]

\* start_datetime, end_datetime = get_day_boundaries_from_datetime(date)
day_boundaries(r) ==
    /\ ses[r].st = "run"
    /\ ses[r].h = "day_boundaries"
    /\ Answer(r, <<get_day_boundaries_from_datetime(ses[r].batch[1])>>)

\* ------------------------------------------------------------------ heart rate
\* datetime.strptime(date_str, "%Y-%m-%d %H:%M:%S %z") and then
\* activity_datetime.replace(tzinfo=None): the date and the time as written,
\* the offset dropped, as hours since the epoch; None for the ValueError of a
\* string without a time or an offset.
activity_datetime(str) ==
    IF str.time = None \/ str.offset = None
    THEN None
    ELSE Some(str.date * HoursPerDay + Value(str.time))

\* A request of POST /api/ingest-heart-rate with one data point, whose date
\* string is str
HeartRateRequest(str) ==
    [IdleSession EXCEPT !.st = "run", !.h = "heart_rate_ingest", !.user = "u1",
                        !.batch = <<str>>]

\* ingest_heart_rate_data (api/heart_rate.py) on its data point.  A date
\* string that does not parse is passed over with "continue" and the request
\* succeeds with no record processed.  Otherwise the lookup filters on
\* HourlyHeartRate.user_id, and the model has the column user_email and no
\* attribute user_id: AttributeError, answered 500.  resp holds the value of
\* activity_datetime, the timestamp of the key, at that point.
ingest_heart_rate_data(r) ==
    LET s == ses[r]
        key == activity_datetime(s.batch[1])
    IN  /\ s.st = "run"
        /\ s.h = "heart_rate_ingest"
        /\ ses' = [ses EXCEPT ![r] =
                      IF key = None
                      THEN [s EXCEPT !.st = "ok"]
                      ELSE [Raise(s, "AttributeError") EXCEPT !.resp = <<Value(key)>>]]
        /\ UNCHANGED <<store, now>>

\* ------------------------------------------------------------------ routing
\* A segment of a route's path: a literal, or a parameter "{name}" of the str
\* convertor, which matches any one non-empty segment
Literal(name) == [param |-> FALSE, name |-> name]
PathParam(name) == [param |-> TRUE, name |-> name]

APIRoute(method, path, endpoint) ==
    [method |-> method, path |-> path, endpoint |-> endpoint]

\* The routes of the nutrition macros router, in the order the decorators
\* register them; paths are written below the prefix /macros, as the sequence
\* of their segments
routes ==
    << APIRoute("GET", << >>, "macros_export"),
       APIRoute("POST", <<Literal("bulk")>>, "macros_bulk"),
       APIRoute("GET", <<PathParam("record_id")>>, "macros_get"),
       APIRoute("DELETE", <<PathParam("record_id")>>, "macros_delete"),
       APIRoute("GET", <<Literal("daily"), PathParam("date")>>, "macros_daily"),
       APIRoute("GET", <<Literal("aggregate")>>, "macros_aggregate") >>

\* Route.matches: the path regex against the whole path, then the method
matches(route, scope) ==
    IF /\ Len(route.path) = Len(scope.path)
       /\ \A i \in 1..Len(route.path) :
             route.path[i].param \/ route.path[i].name = scope.path[i]
    THEN IF route.method = scope.method THEN "FULL" ELSE "PARTIAL"
    ELSE "NONE"

\* A request received by the router
RouteRequest(scope) ==
    [IdleSession EXCEPT !.st = "run", !.h = "macros_router", !.user = "u1",
                        !.batch = <<scope>>]

\* Router.app: the routes are tried in order and the first full match is
\* given the request; with none, the first partial match answers 405, and
\* with no match at all the answer is 404.
Router_app(r) ==
    LET s == ses[r]
        scope == s.batch[1]
        full == {i \in 1..Len(routes) : matches(routes[i], scope) = "FULL"}
        partial == {i \in 1..Len(routes) : matches(routes[i], scope) = "PARTIAL"}
        first == CHOOSE i \in full : \A j \in full : i <= j
    IN  /\ s.st = "run"
        /\ s.h = "macros_router"
        /\ ses' = [ses EXCEPT ![r] =
                      IF full # {}
                      THEN [s EXCEPT !.h = routes[first].endpoint]
                      ELSE IF partial # {}
                      THEN HTTPException(s, "HTTP_405")
                      ELSE HTTPException(s, "HTTP_404")]
        /\ UNCHANGED <<store, now>>

\* ------------------------------------------------------------------ specifications
Sources == {Some(s) : s \in DataSource}

\* The table a handler reads and writes
TableOf(h) ==
    CASE h \in {"miles_bulk", "miles_service", "miles_list", "miles_get",
                "miles_delete", "miles_repo_delete"} -> "activity_miles"
      [] h = "workouts_bulk" -> "activity_workouts"
      [] h \in {"sleep_bulk", "sleep_delete"} -> "sleep_daily"
      [] h \in {"steps_ingest", "steps_record"} -> "activity_steps"
      [] h = "heartrate_record" -> "body_heartrate"
      [] h = "composition_bulk" -> "body_composition"
      [] h = "goal_bulk" -> "goal_general"
      [] OTHER -> "nutrition_macros"

\* No handler reads or writes a table other than its own, so the behaviours
\* are explored one table at a time: a request for h arrives while the other
\* tables are empty.
Alone(h) == \A x \in store : x.tbl = TableOf(h)

\* The requests are interchangeable: a request is served by the first session
\* that is free.
FirstFree(r) == \A q \in Sessions : q < r => ses[q].st # "idle"

\* One request at a time on the kinds keyed by (user, timestamp, source)
Next ==
    \/ \E h \in {"miles_bulk", "miles_service", "workouts_bulk", "steps_ingest",
                  "steps_record", "heartrate_record"} :
          Alone(h) /\ get_db(1, h, "u1")
    \/ db_close(1)
    \/ db_commit(1)
    \/ MetricsRepository_commit(1)
    \/ MetricsService_return(1)
    \/ \E c \in Candidates({1}, {Some("Manual")}, {1, 2}, {1}) :
          MetricsService_create_or_update_multiple_miles_records(1, c)
    \/ \E c \in Candidates({1}, Sources, {1, 2}, {}) :
          create_or_update_multiple_activity_miles_records(1, c)
    \/ \E c \in Candidates({1}, {None, Some("Manual")}, {1}, {}) :
          create_or_update_multiple_workout_records(1, c)
    \/ \E data_point \in Candidates({1, Malformed}, {Some("Manual"), Some("")}, {1}, {}) :
          ingest_steps_data(1, data_point)
    \/ \E steps_data \in Candidates({1}, {Some("Manual")}, {1}, {}) :
          create_hourly_steps_record(1, steps_data)
    \/ \E heart_rate_data \in Candidates({1}, {Some("Manual")}, {1}, {}) :
          create_heart_rate_record(1, heart_rate_data)

Spec == Init /\ [][Next]_vars

\* Two requests at a time: the service path of the miles, POST /sleep/bulk and
\* POST /workouts/bulk
NextConc ==
    \/ \E r \in Sessions, h \in {"miles_service", "sleep_bulk", "workouts_bulk"} :
          FirstFree(r) /\ Alone(h) /\ get_db(r, h, "u1")
    \/ \E r \in Sessions : db_close(r)
    \/ \E r \in Sessions : db_commit(r)
    \/ \E r \in Sessions : MetricsRepository_commit(r)
    \/ \E r \in Sessions : MetricsService_return(r)
    \/ \E r \in Sessions, c \in Candidates({1}, Sources, {}, {}) :
          MetricsService_create_or_update_multiple_miles_records(r, c)
    \/ \E r \in Sessions, c \in Candidates({1}, Sources, {}, {}) :
          create_or_update_multiple_sleep_records(r, c)
    \/ \E r \in Sessions, c \in Candidates({1}, {None}, {}, {}) :
          create_or_update_multiple_workout_records(r, c)

SpecConc == Init /\ [][NextConc]_vars

\* One request at a time on the kinds with one record per user
NextSingle ==
    \/ \E h \in {"composition_bulk", "goal_bulk"} : Alone(h) /\ get_db(1, h, "u1")
    \/ db_close(1)
    \/ db_commit(1)
    \/ \E c \in Candidates({1, 2}, {None}, {1, 2}, {1}) :
          create_or_update_multiple_body_composition_records(1, c)
    \/ \E c \in Candidates({1}, {None}, {1, 2}, {1}) :
          create_or_update_multiple_general_goals(1, c)

SpecSingle == Init /\ [][NextSingle]_vars

\* One request at a time on the nutrition macros: bulk upsert, the same
\* request sent again, and the daily aggregations
NextMacros ==
    \/ \E h \in {"macros_bulk", "macros_daily", "macros_daily_service"} :
          get_db(1, h, "u1")
    \/ db_close(1)
    \/ db_commit(1)
    \/ resend(1)
    \/ \E c \in Candidates({10, 11}, {Some("Lunch")}, {0, 1}, {0}) :
          create_or_update_multiple_macro_records(1, c)
    \/ \E day \in {0, 1} : get_daily_macro_records(1, day)
    \/ \E day \in {0, 1} : NutritionService_get_daily_macros_data(1, day)

SpecMacros == Init /\ [][NextMacros]_vars

\* The day boundaries of every input string over two dates
InitDay ==
    /\ store = {}
    /\ now = 0
    /\ \E str \in DatetimeStrs({0, 1}) :
          ses = [r \in Sessions |-> IF r = 1 THEN DayRequest(str) ELSE IdleSession]

NextDay ==
    \/ day_boundaries(1)

SpecDay == InitDay /\ [][NextDay]_vars

\* One request at a time: bulk upserts of macros and miles, the aggregation by
\* day and the list of the miles
NextAgg ==
    \/ \E h \in {"macros_bulk", "macros_aggregate", "miles_bulk", "miles_list"} :
          Alone(h) /\ get_db(1, h, "u1")
    \/ db_close(1)
    \/ db_commit(1)
    \/ \E c \in Candidates({3, 30}, {Some("Lunch")}, {1}, {})
                   \cup Candidates({11}, {Some("Lunch")}, {}, {}) :
          create_or_update_multiple_macro_records(1, c)
    \/ \E c \in Candidates({1, 2}, Sources, {}, {}) :
          create_or_update_multiple_activity_miles_records(1, c)
    \/ \E start_date, end_date \in Opt({0, 1}) :
          get_macro_aggregations(1, start_date, end_date)
    \/ MetricsRepository_get_miles_data(1)

SpecAgg == Init /\ [][NextAgg]_vars

\* The ids a caller asks for
RecordIds == 1..3

\* One request at a time, of two users: bulk upserts of miles, sleep and
\* macros, and get and delete by id
NextById ==
    \/ \E h \in {"miles_bulk", "miles_get", "miles_delete", "miles_repo_delete",
                  "macros_bulk", "macros_delete", "macros_repo_delete",
                  "sleep_bulk", "sleep_delete"},
          u \in {"u1", "u2"} :
          get_db_within(1, h, u, MaxLongRequests)
    \/ db_close(1)
    \/ db_commit(1)
    \/ \E c \in Candidates({1}, {Some("Manual")}, {1, 2}, {}) :
          create_or_update_multiple_activity_miles_records(1, c)
    \/ \E c \in Candidates({1}, {Some("Manual")}, {}, {}) :
          create_or_update_multiple_sleep_records(1, c)
    \/ \E c \in Candidates({10}, {Some("Lunch")}, {}, {}) :
          create_or_update_multiple_macro_records(1, c)
    \/ \E record_id \in RecordIds : get_activity_mile_record(1, record_id)
    \/ \E record_id \in RecordIds : delete_activity_miles_record(1, record_id)
    \/ \E record_id \in RecordIds : delete_macro_record(1, record_id)
    \/ \E record_id \in RecordIds : delete_sleep_daily_record(1, record_id)
    \/ \E record_id \in RecordIds : MetricsRepository_delete_miles_record(1, record_id)
    \/ \E record_id \in RecordIds : NutritionRepository_delete_macro_record(1, record_id)

SpecById == Init /\ [][NextById]_vars

\* The requests are served one after the other; the session of an answered
\* request may still be open when the next request arrives.
Sequential == \A q \in Sessions : ses[q].st # "run"

\* Bulk upserts of miles and sleep, served by session 1, and deletes by id,
\* served by session 2, of one user
NextDelete ==
    \/ \E h \in {"miles_bulk", "sleep_bulk"} :
          Sequential /\ get_db_within(1, h, "u1", MaxLongRequests)
    \/ \E h \in {"miles_delete", "miles_repo_delete", "sleep_delete"} :
          Sequential /\ get_db_within(2, h, "u1", MaxLongRequests)
    \/ \E r \in Sessions : db_close(r)
    \/ db_commit(1)
    \/ \E c \in Candidates({1, 2}, {Some("Manual")}, {1}, {}) :
          create_or_update_multiple_activity_miles_records(1, c)
    \/ \E c \in Candidates({1}, {Some("Manual")}, {1}, {}) :
          create_or_update_multiple_sleep_records(1, c)
    \/ \E record_id \in RecordIds : delete_activity_miles_record(2, record_id)
    \/ \E record_id \in RecordIds : delete_sleep_daily_record(2, record_id)
    \/ \E record_id \in RecordIds : MetricsRepository_delete_miles_record(2, record_id)

SpecDelete == Init /\ [][NextDelete]_vars

\* Two requests at a time on POST /miles/bulk, each candidate with one data
\* field present
NextMerge ==
    \/ \E r \in Sessions :
          FirstFree(r) /\ get_db_within(r, "miles_bulk", "u1", MaxLongRequests)
    \/ \E r \in Sessions : db_close(r)
    \/ \E r \in Sessions : db_commit(r)
    \/ \E r \in Sessions,
          c \in {Candidate(1, Some("Manual"), Some(1), None),
                 Candidate(1, Some("Manual"), None, Some(1))} :
          create_or_update_multiple_activity_miles_records(r, c)

SpecMerge == Init /\ [][NextMerge]_vars

\* One request at a time, of two users: messages added to the user's
\* conversation, and the reads of messages, conversations and miles
NextRead ==
    \/ \E h \in {"chat_add", "chat_messages", "chat_conversations",
                  "miles_bulk", "miles_list", "miles_get"},
          u \in {"u1", "u2"} :
          get_db_within(1, h, u, MaxLongRequests)
    \/ db_close(1)
    \/ db_commit(1)
    \/ ChatService_get_or_create_conversation(1)
    \/ ChatService_add_message(1)
    \/ \E conversation_id \in RecordIds : get_messages(1, conversation_id)
    \/ get_conversations(1)
    \/ \E c \in Candidates({1}, {Some("Manual")}, {}, {}) :
          create_or_update_multiple_activity_miles_records(1, c)
    \/ MetricsRepository_get_miles_data(1)
    \/ \E record_id \in RecordIds : get_activity_mile_record(1, record_id)

SpecRead == Init /\ [][NextRead]_vars

\* The date strings of the heart-rate data points: two dates, three times of
\* day, with the offset -4, with the offset 0 ("+0000") or without one
HeartRateStrs ==
    {DatetimeStr(d, Some(h), off) :
        d \in {0, 1}, h \in {0, 19, 23}, off \in {None, Some(-4), Some(0)}}

\* Two requests of the heart-rate ingest, each with one data point
InitHeartRate ==
    /\ store = {}
    /\ now = 0
    /\ \E str1, str2 \in HeartRateStrs :
          ses = [r \in Sessions |->
                    IF r = 1 THEN HeartRateRequest(str1) ELSE HeartRateRequest(str2)]

NextHeartRate ==
    \/ \E r \in Sessions : ingest_heart_rate_data(r)

SpecHeartRate == InitHeartRate /\ [][NextHeartRate]_vars

\* The requests of the routing specification: three methods, and the paths
\* of at most two segments over the literals of the routes, a record id and
\* a date
Segments == {"bulk", "daily", "aggregate", "r1", "2025-01-01"}

Scopes ==
    [method : {"GET", "POST", "DELETE"},
     path : {<< >>} \cup {<<a>> : a \in Segments}
                   \cup {<<a, b>> : a \in Segments, b \in Segments}]

InitRoute ==
    /\ store = {}
    /\ now = 0
    /\ \E scope \in Scopes :
          ses = [r \in Sessions |->
                    IF r = 1 THEN RouteRequest(scope) ELSE IdleSession]

NextRoute ==
    \/ \E r \in Sessions : Router_app(r)

SpecRoute == InitRoute /\ [][NextRoute]_vars

\* ------------------------------------------------------------------ claims
KeyedTables == {"activity_miles", "activity_steps", "activity_workouts", "sleep_daily"}

BulkHandlers == {"miles_bulk", "miles_service", "workouts_bulk", "sleep_bulk"}

SameKey(c, d) == c.date = d.date /\ c.source = d.source

\* C1: for the kinds keyed by (owner, timestamp, source), storage never holds
\* two records with the same (owner, timestamp, source).
C1_UniqueNaturalKey ==
    \A x, y \in store :
        (/\ x.tbl \in KeyedTables
         /\ x.tbl = y.tbl
         /\ x.user_id = y.user_id
         /\ x.date = y.date
         /\ x.source = y.source) => x.id = y.id

\* C2: in a batch of POST /miles/bulk whose two candidates share the natural
\* key and whose first candidate found no record (created >= 1), the second
\* candidate is merged into the first: created = 1, updated = 1, the request
\* does not fail and ends with exactly one stored record for the key.
C2_SecondSeesFirst ==
    \A r \in Sessions :
        LET s == ses[r]
        IN  (/\ s.h = "miles_bulk"
             /\ Len(s.batch) = 2
             /\ SameKey(s.batch[1], s.batch[2])
             /\ s.created >= 1)
            => /\ s.created = 1
               /\ s.updated = 1
               /\ s.st # "err"
               /\ s.st = "ok" =>
                     Cardinality(ByUserDateSource("activity_miles", s.user,
                                                  s.batch[1])) = 1

\* C3: when a bulk upsert fails, none of its candidates has a visible write:
\* no row the request created is stored and no stored row carries its merge.
C3_AllOrNothing ==
    \A r \in Sessions :
        (ses[r].st = "err" /\ ses[r].h \in BulkHandlers) =>
            \A x \in store :
                /\ x.id \notin ses[r].made
                /\ ~ (x.id \in SeqRange(ses[r].processed)
                      /\ x.updated_at = Some(ses[r].stamp))

CreatedAt(s, i) == s.processed[i] \in s.made

Persisted(s, i) == \E x \in store : x.id = s.processed[i]

Pending(s, i) == \E k \in 1..Len(s.news) : s.news[k].id = s.processed[i]

\* Of two requests that both found no record for the same (owner, timestamp,
\* source) in a table of T and both staged an insert, at most one insert is
\* committed; once one is, the other request, as soon as it has flushed its
\* own, has failed with the storage conflict (IntegrityError).
OneInsertWins(T) ==
    \A r1, r2 \in Sessions :
        r1 # r2 =>
            \A i \in 1..Len(ses[r1].processed), j \in 1..Len(ses[r2].processed) :
                (/\ TableOf(ses[r1].h) \in T
                 /\ TableOf(ses[r1].h) = TableOf(ses[r2].h)
                 /\ ses[r1].user = ses[r2].user
                 /\ SameKey(ses[r1].batch[i], ses[r2].batch[j])
                 /\ CreatedAt(ses[r1], i)
                 /\ CreatedAt(ses[r2], j)
                 /\ Persisted(ses[r1], i))
                => /\ ~ Persisted(ses[r2], j)
                   /\ ~ Pending(ses[r2], j) =>
                         ses[r2].st = "err" /\ ses[r2].err = "IntegrityError"

\* C4: when two concurrent bulk upserts both hold a candidate for the same
\* (owner, timestamp, source) that does not exist yet, at most one insert is
\* committed and the other request fails with the conflict.
C4_OneInsertWins == OneInsertWins(KeyedTables)

\* The same for the kinds whose source column is NOT NULL
OneInsertWinsNotNull == OneInsertWins({t \in KeyedTables : NotNullSource(t)})

\* The field values of a record, without its lifecycle timestamp
FieldsOf(x) ==
    [id |-> x.id, user_id |-> x.user_id, date |-> x.date, source |-> x.source,
     f1 |-> x.f1, f2 |-> x.f2]

\* C5: a batch of POST /macros/bulk applied a second time succeeds with
\* created_count = 0, returns the processed records of the first application
\* and leaves the stored field values as the first application left them.
C5_Idempotent ==
    \A r \in Sessions :
        LET s == ses[r]
        IN  (s.replay /\ s.h = "macros_bulk" /\ s.st \in {"ok", "err"}) =>
                /\ s.st = "ok"
                /\ s.created = 0
                /\ Len(s.resp) = Len(s.first.resp)
                /\ \A i \in 1..Len(s.resp) :
                      FieldsOf(s.resp[i]) = FieldsOf(s.first.resp[i])
                /\ {FieldsOf(x) : x \in store} = {FieldsOf(x) : x \in s.first.rows}

Last(q) == q[Len(q)]

C7_KeyIsolation ==
    [][\A r \in Sessions :
          (ses[r].st = "run" /\ store' # store /\ ses'[r] # ses[r]) =>
              /\ \A x \in (store \ store') \cup (store' \ store) :
                    /\ x.tbl = TableOf(ses[r].h)
                    /\ \E i \in 1..Len(ses[r].batch) : SameKey(ses[r].batch[i], x)
              /\ \A i \in 1..Len(ses[r].batch) :
                    \E x \in store' :
                        /\ x.tbl = TableOf(ses[r].h)
                        /\ x.user_id = ses[r].user
                        /\ SameKey(ses[r].batch[i], x)]_vars

\* two records of one owner and one timestamp that differ in source, of which
\* a later upsert has merged into one and left the other as it was created
C7_Witness ==
    \E x, y \in store :
        /\ x.tbl = y.tbl
        /\ x.user_id = y.user_id
        /\ x.date = y.date
        /\ x.source # y.source
        /\ x.updated_at # None
        /\ y.updated_at = None
        /\ \E r \in Sessions : ses[r].st = "ok" /\ ses[r].updated = 1

\* C8: for the one-record-per-user kinds, once a bulk upsert with at least
\* one candidate has ended, exactly one record exists for the user, and the
\* request created at most one.
C8_OneRecordPerUser ==
    \A r \in Sessions :
        LET s == ses[r]
        IN  (/\ s.h \in {"composition_bulk", "goal_bulk"}
             /\ s.st \in {"ok", "err"}
             /\ Len(s.batch) >= 1)
            => /\ Cardinality(ByUser(TableOf(s.h), s.user)) = 1
               /\ s.created <= 1

\* C9: a completed bulk upsert of n candidates returns n records and
\* created_count + updated_count = n; the i-th record is stored, carries the
\* natural key of the i-th candidate and every present field of the i-th
\* candidate that no later candidate of the batch overwrote in that record.
C9_ProcessedInOrder ==
    \A r \in Sessions :
        LET s == ses[r]
            n == Len(s.batch)
        IN  (s.st = "ok" /\ s.h \in BulkHandlers) =>
                /\ Len(s.resp) = n
                /\ s.created + s.updated = n
                /\ \A i \in 1..n :
                      /\ s.resp[i] \in store
                      /\ s.resp[i].tbl = TableOf(s.h)
                      /\ s.resp[i].user_id = s.user
                      /\ SameKey(s.batch[i], s.resp[i])
                      /\ (/\ s.batch[i].f1 # None
                          /\ \A j \in (i + 1)..n :
                                s.resp[j].id = s.resp[i].id => s.batch[j].f1 = None)
                         => s.resp[i].f1 = s.batch[i].f1
                      /\ (/\ s.batch[i].f2 # None
                          /\ \A j \in (i + 1)..n :
                                s.resp[j].id = s.resp[i].id => s.batch[j].f2 = None)
                         => s.resp[i].f2 = s.batch[i].f2

\* a completed batch of two candidates, one created and one merged
C9_Witness ==
    \E r \in Sessions :
        /\ ses[r].st = "ok"
        /\ ses[r].h \in BulkHandlers
        /\ Len(ses[r].batch) = 2
        /\ ses[r].created = 1
        /\ ses[r].updated = 1

\* the group has a non-null value for field f and all its non-null values are 0
MeasuredZero(g, f) ==
    /\ \E x \in g : x[f] # None
    /\ \A x \in g : x[f] # None => x[f] = Some(0)

\* C10: a daily aggregation over a group whose non-null values of a field are
\* all 0 (and there is at least one) reports the total 0 for it, not null.
C10_ZeroPreserved ==
    \A r \in Sessions :
        (ses[r].st = "ok" /\ ses[r].h \in {"macros_daily", "macros_daily_service"}) =>
            /\ MeasuredZero(ses[r].resp[1].meals, "f1") =>
                  ses[r].resp[1].total_f1 = Some(0)
            /\ MeasuredZero(ses[r].resp[1].meals, "f2") =>
                  ses[r].resp[1].total_f2 = Some(0)

\* the group has no non-null value for field f (its members are all null, or
\* it is empty)
NoContribution(g, f) == \A x \in g : x[f] = None

\* C11: a daily aggregation reports null, not 0, as the total of every field
\* for which the group has no non-null value.
C11_NoDataIsNull ==
    \A r \in Sessions :
        (ses[r].st = "ok" /\ ses[r].h \in {"macros_daily", "macros_daily_service"}) =>
            /\ NoContribution(ses[r].resp[1].meals, "f1") =>
                  ses[r].resp[1].total_f1 = None
            /\ NoContribution(ses[r].resp[1].meals, "f2") =>
                  ses[r].resp[1].total_f2 = None

\* The calendar date and the hour of instant i on the clock of offset off
LocalDate(i, off) == (i + off) \div HoursPerDay

LocalHour(i, off) == (i + off) % HoursPerDay

\* The caller r has been answered the boundaries of its string
Answered(r) == ses[r].h = "day_boundaries" /\ ses[r].st = "ok"

\* C12: for an input with an explicit offset whose local date is D, start is
\* the first and end the last instant of D on the clock of that offset, both
\* as UTC instants, so start <= input instant <= end and end - start is one
\* day less one tick.
C12_OffsetDay ==
    \A r \in Sessions :
        (Answered(r) /\ ses[r].batch[1].offset # None) =>
            LET str == ses[r].batch[1]
                off == Value(str.offset)
                instant == str.date * HoursPerDay + Value(str.time) - off
                b == ses[r].resp[1]
            IN  /\ LocalDate(b.start, off) = str.date
                /\ LocalHour(b.start, off) = 0
                /\ LocalDate(b.end, off) = str.date
                /\ LocalHour(b.end, off) = HoursPerDay - 1
                /\ b.start <= instant
                /\ instant <= b.end
                /\ b.end - b.start = HoursPerDay - 1

\* an answered range of an offset input that straddles two UTC dates
C12_Witness ==
    \E r \in Sessions :
        /\ Answered(r)
        /\ ses[r].batch[1].offset # None
        /\ ses[r].resp[1].start \div HoursPerDay # ses[r].resp[1].end \div HoursPerDay

\* C13: for a bare date the boundaries are that date's first and last instant
\* in UTC.
C13_BareDateIsUtc ==
    \A r \in Sessions :
        (Answered(r) /\ ses[r].batch[1].time = None) =>
            /\ ses[r].resp[1].start = ses[r].batch[1].date * HoursPerDay
            /\ ses[r].resp[1].end = ses[r].batch[1].date * HoursPerDay + (HoursPerDay - 1)

C13_Witness ==
    \E r \in Sessions :
        /\ Answered(r)
        /\ ses[r].batch[1].time = None
        /\ ses[r].resp[1].end > ses[r].resp[1].start

\* C14: for an input of date D with an offset strictly between -12h and +12h,
\* a sample at local noon of D lies inside the inclusive range of the input
\* and inside the inclusive range of the bare date D.
C14_NoonInBothRanges ==
    \A r \in Sessions :
        (/\ Answered(r)
         /\ ses[r].batch[1].offset # None
         /\ 2 * Value(ses[r].batch[1].offset) < HoursPerDay
         /\ 2 * Value(ses[r].batch[1].offset) > - HoursPerDay)
        => LET str == ses[r].batch[1]
               sample == str.date * HoursPerDay + (HoursPerDay \div 2) - Value(str.offset)
               bare == get_day_boundaries_from_datetime(DatetimeStr(str.date, None, None))
           IN  /\ ses[r].resp[1].start <= sample
               /\ sample <= ses[r].resp[1].end
               /\ bare.start <= sample
               /\ sample <= bare.end

\* the ranges of "date 1, 22:00, -05:00" and of the bare date 1 start at
\* different UTC instants
C14_Witness ==
    \E r \in Sessions :
        /\ Answered(r)
        /\ ses[r].batch[1] = DatetimeStr(1, Some(22), Some(-5))
        /\ ses[r].resp[1].start
              # get_day_boundaries_from_datetime(DatetimeStr(1, None, None)).start

\* The aggregation by day has answered request r
Aggregated(r) == ses[r].h = "macros_aggregate" /\ ses[r].st = "ok"

IngestedInto(u, day) ==
    LET rows == ByUser("nutrition_macros", u)
    IN  /\ rows # {}
        /\ \A x \in rows :
              /\ x.date >= DayStart(day)
              /\ x.date <= DayEnd(day)
              /\ x.updated_at = None
              /\ \E f \in {"f1", "f2"} : x[f] # None
        /\ \A x, y \in rows : SameKey(x, y) => x = y

\* C16: after samples with distinct natural keys inside one day D have been
\* ingested into empty storage, the day aggregation for D returns one bucket
\* whose sample count is the number of samples and whose total of each
\* ingested field is the sum of the ingested values.
C16_IngestThenAggregate ==
    \A r \in Sessions :
        (/\ ses[r].st = "ok"
         /\ ses[r].h \in {"macros_daily", "macros_daily_service"}
         /\ IngestedInto(ses[r].user, ses[r].resp[1].date))
        => LET rows == ByUser("nutrition_macros", ses[r].user)
               b == ses[r].resp[1]
           IN  /\ Len(ses[r].resp) = 1
               /\ b.meal_count = Cardinality(rows)
               /\ ~ NoContribution(rows, "f1") => b.total_f1 = Some(SumOf(rows, "f1"))
               /\ ~ NoContribution(rows, "f2") => b.total_f2 = Some(SumOf(rows, "f2"))

\* C18: after a completed bulk upsert, every record it merged a candidate
\* into carries the request's time as updated_at, whether or not the merge
\* changed a field value.
C18_MergeRefreshesUpdatedAt ==
    \A r \in Sessions :
        LET s == ses[r]
        IN  (s.st = "ok" /\ s.h \in BulkHandlers \cup {"composition_bulk", "goal_bulk"}) =>
                \A i \in 1..Len(s.processed) :
                    s.processed[i] \notin s.made =>
                        s.resp[i].updated_at = Some(s.stamp)

ByIdHandlers ==
    {"miles_get", "miles_delete", "miles_repo_delete", "macros_delete",
     "sleep_delete"}

\* The outcome of a by-id request is "not found": the handler's 404, or the
\* repository's None
NotFound(s) ==
    IF s.h = "miles_repo_delete"
    THEN s.st = "ok" /\ s.resp = <<None>>
    ELSE s.st = "err" /\ s.err = "HTTP_404"

\* C19: a get or delete by id for which no record with that id is owned by
\* the caller ends with the not-found outcome and leaves storage unchanged.
C19_NotFound ==
    [][\A r \in Sessions :
          (/\ ses[r].st = "run"
           /\ ses[r].h \in ByIdHandlers
           /\ ses'[r].st # "run"
           /\ ~ \E x \in store :
                   /\ x.tbl = TableOf(ses[r].h)
                   /\ x.id = ses'[r].batch[1]
                   /\ x.user_id = ses[r].user)
          => NotFound(ses'[r]) /\ store' = store]_vars

\* a by-id request for a record of another user has ended as not found
C19_Witness ==
    \E r \in Sessions :
        /\ ses[r].h \in ByIdHandlers
        /\ NotFound(ses[r])
        /\ \E x \in store :
              /\ x.tbl = TableOf(ses[r].h)
              /\ x.id = ses[r].batch[1]
              /\ x.user_id # ses[r].user

\* C20: a data point of POST /steps/ whose date string is malformed makes the
\* request raise a validation error; it is not passed over.
C20_InvalidRaises ==
    [][\A r \in Sessions :
          (/\ ses[r].st = "run"
           /\ ses[r].h = "steps_ingest"
           /\ Len(ses'[r].batch) = Len(ses[r].batch) + 1
           /\ Last(ses'[r].batch).date = Malformed)
          => ses'[r].st = "err"]_vars

DeleteHandlers == {"miles_delete", "miles_repo_delete", "sleep_delete", "macros_delete"}

\* The delete request of session s has deleted a record
Deleted(s) ==
    /\ s.h \in DeleteHandlers
    /\ s.st = "ok"
    /\ s.h = "miles_repo_delete" => s.resp # <<None>>

\* C22: a delete by id and owner that succeeds removes the one record of that
\* kind with that id and owner and changes no other record of any kind; and an
\* upsert of a candidate for whose natural key the caller has no stored record
\* creates a record instead of merging.
C22_DeleteExactlyOne ==
    [][\A r \in Sessions :
          /\ (ses[r].st = "run" /\ Deleted(ses'[r])) =>
                \E x \in store :
                    /\ x.id = ses'[r].batch[1]
                    /\ x.user_id = ses[r].user
                    /\ x.tbl = TableOf(ses[r].h)
                    /\ store' = store \ {x}
          /\ (/\ ses[r].st = "run"
              /\ ses[r].h \in BulkHandlers
              /\ Len(ses'[r].batch) = Len(ses[r].batch) + 1
              /\ ~ \E x \in store :
                      /\ x.tbl = TableOf(ses[r].h)
                      /\ x.user_id = ses[r].user
                      /\ SameKey(Last(ses'[r].batch), x))
             => /\ ses'[r].created = ses[r].created + 1
                /\ ses'[r].updated = ses[r].updated]_vars

\* a record was deleted, and the next request, an upsert of one candidate of
\* the deleted kind whose key no stored record has, has created a record
C22_Witness ==
    /\ Deleted(ses[2])
    /\ ses[1].st = "ok"
    /\ ses[1].stamp > ses[2].stamp
    /\ ses[1].h = "sleep_bulk"
    /\ ses[2].h = "sleep_delete"
    /\ Len(ses[1].batch) = 1
    /\ ses[1].created = 1
    /\ Cardinality({x \in store : SameKey(ses[1].batch[1], x)}) = 1

\* The answered request of session r merged one candidate, which had field f
\* and no other
MergedOnly(r, f, g) ==
    /\ ses[r].st = "ok"
    /\ ses[r].h = "miles_bulk"
    /\ Len(ses[r].batch) = 1
    /\ ses[r].updated = 1
    /\ ses[r].batch[1][f] # None
    /\ ses[r].batch[1][g] = None

\* C23: when two requests have each merged one candidate into the same record,
\* one with only the first data field present and one with only the second, the
\* stored record carries both values.
C23_DisjointFieldsKept ==
    \A r1, r2 \in Sessions :
        (r1 # r2 /\ MergedOnly(r1, "f1", "f2") /\ MergedOnly(r2, "f2", "f1")) =>
            \A x \in store :
                x.id = ses[r1].processed[1] =>
                    /\ ses[r2].processed[1] = x.id
                    /\ x.f1 = ses[r1].batch[1].f1
                    /\ x.f2 = ses[r2].batch[1].f2

\* two such merges that overlapped: the request that arrived first committed
\* last
C23_Witness ==
    \E r1, r2 \in Sessions :
        /\ r1 # r2
        /\ MergedOnly(r1, "f1", "f2")
        /\ MergedOnly(r2, "f2", "f1")
        /\ \E q1, q2 \in {r1, r2} :
              /\ ses[q1].stamp < ses[q2].stamp
              /\ \E x \in store : /\ x.id = ses[q1].processed[1]
                                   /\ x.updated_at = Some(ses[q1].stamp)

ReadHandlers == {"chat_messages", "chat_conversations", "miles_list", "miles_get"}

\* C24: the response of a read request holds only records owned by the
\* caller.
C24_ReadIsolation ==
    \A r \in Sessions :
        (ses[r].st = "ok" /\ ses[r].h \in ReadHandlers) =>
            \A i \in 1..Len(ses[r].resp) : ses[r].resp[i].user_id = ses[r].user

\* C25: storage never holds two macro records of one user with the same
\* datetime and meal name, and no macros upsert fails on its lookup with
\* MultipleResultsFound.
C25_MacrosUnique ==
    /\ \A x, y \in Table("nutrition_macros") :
          (x.user_id = y.user_id /\ SameKey(x, y)) => x.id = y.id
    /\ \A r \in Sessions :
          ses[r].h = "macros_bulk" => ses[r].err # "MultipleResultsFound"

RepositoryDeletes == {"miles_repo_delete", "macros_repo_delete"}

\* C26: a repository delete by id returns a record exactly when the caller
\* had a record with that id, which is then no longer stored, and returns None
\* exactly when nothing was deleted.
C26_DeleteReturnsRecord ==
    [][\A r \in Sessions :
          (/\ ses[r].st = "run"
           /\ ses[r].h \in RepositoryDeletes
           /\ ses'[r].st = "ok")
          => LET existed == \E x \in store :
                               /\ x.tbl = TableOf(ses[r].h)
                               /\ x.id = ses'[r].batch[1]
                               /\ x.user_id = ses[r].user
             IN  /\ (ses'[r].resp # <<None>>) <=> existed
                 /\ (ses'[r].resp = <<None>>) <=> (store' = store)]_vars

KeyColumns == {"id", "tbl", "user_id", "date", "source"}

CreateOnlyHandlers == {"steps_record", "heartrate_record"}

\* C28: a create-only request (POST /record) for a key the caller already has
\* a record of fails with the 400 error and leaves storage unchanged;
\* otherwise it succeeds and adds exactly one record, with that key.
C28_CreateOnly ==
    [][\A r \in Sessions :
          (/\ ses[r].st = "run"
           /\ ses[r].h \in CreateOnlyHandlers
           /\ ses'[r].st # "run")
          => LET c == ses'[r].batch[1]
                 existing == ByUserDateSource(TableOf(ses[r].h), ses[r].user, c)
             IN  IF existing # {}
                 THEN /\ ses'[r].st = "err"
                      /\ ses'[r].err = "HTTP_400"
                      /\ store' = store
                 ELSE /\ ses'[r].st = "ok"
                      /\ store \subseteq store'
                      /\ Cardinality(store' \ store) = 1
                      /\ \A x \in store' \ store :
                            x.user_id = ses[r].user /\ SameKey(c, x)]_vars

\* The instant a date string with a time and an offset denotes
Instant(str) == CombineUtc(str.date, Value(str.time), Value(str.offset))

\* The heart-rate request of session r has resolved the key of its data point
Resolved(r) ==
    /\ ses[r].h = "heart_rate_ingest"
    /\ ses[r].st = "err"
    /\ Len(ses[r].resp) = 1

\* C29: the key timestamps of two heart-rate data points are equal exactly
\* when their date strings denote the same instant.
C29_KeysAreInstants ==
    \A r1, r2 \in Sessions :
        (Resolved(r1) /\ Resolved(r2)) =>
            ((ses[r1].resp[1] = ses[r2].resp[1])
                <=> (Instant(ses[r1].batch[1]) = Instant(ses[r2].batch[1])))

\* The router has dispatched the request of session r, whose scope is kept in
\* the batch, to an endpoint
Dispatched(r) ==
    /\ ses[r].st = "run"
    /\ Len(ses[r].batch) = 1
    /\ ses[r].batch[1] \in Scopes
    /\ ses[r].h # "macros_router"

\* C30: a GET of /aggregate is dispatched to the by-day aggregation handler
\* and a GET of /daily/{date} to the daily handler.
C30_RoutesReachable ==
    \A r \in Sessions :
        (Dispatched(r) /\ ses[r].batch[1].method = "GET") =>
            /\ ses[r].batch[1].path = <<"aggregate">> => ses[r].h = "macros_aggregate"
            /\ (/\ Len(ses[r].batch[1].path) = 2
                /\ ses[r].batch[1].path[1] = "daily") => ses[r].h = "macros_daily"

====
